---- MODULE Spec2Model ----
(***************************************************************************)
(* Architect: tradebook notebooks run in a Jupyter kernel, the models they *)
(* evaluate over unit-tagged arrays, and the repository's commit and       *)
(* continuous-integration configuration.                                   *)
(***************************************************************************)
EXTENDS Integers, Sequences, FiniteSets, TLC

(***************************************************************************)
(* Bounds of the model.                                                    *)
(***************************************************************************)
\* longest explicit array a Parameters cell is edited to hold
MaxLen == 2
\* number of times the Parameters cell is edited
MaxEdits == 1

(***************************************************************************)
(* Generic helpers.                                                        *)
(***************************************************************************)
None == << >>
Some(x) == << x >>
IsSome(o) == Len(o) = 1
Get(o) == o[1]

Max(a, b) == IF a >= b THEN a ELSE b

RECURSIVE Pow10(_)
Pow10(n) == IF n = 0 THEN 1 ELSE 10 * Pow10(n - 1)

RECURSIVE Newton(_, _)
Newton(T, x) ==
    LET y == (x + T \div x) \div 2
    IN  IF y >= x THEN x ELSE Newton(T, y)

\* floor of the square root
ISqrt(T) == IF T = 0 THEN 0 ELSE Newton(T, T)

Range(s) == { s[i] : i \in 1..Len(s) }

SeqsUpTo(S, n) == UNION { [1..k -> S] : k \in 0..n }

(***************************************************************************)
(* astropy units: a unit is a product of powers of named units.  Units of  *)
(* the same name cancel; units that differ only by a prefix do not, until  *)
(* a conversion is made.                                                   *)
(***************************************************************************)
UnitNames == {"nm", "mm", "m", "km", "ms", "s", "electron", "deg", "rad"}

dimensionless_unscaled == [n \in UnitNames |-> 0]
U(name) == [n \in UnitNames |-> IF n = name THEN 1 ELSE 0]
UMul(a, b) == [n \in UnitNames |-> a[n] + b[n]]
UDiv(a, b) == [n \in UnitNames |-> a[n] - b[n]]
UInv(a) == UDiv(dimensionless_unscaled, a)
USqrt(a) == [n \in UnitNames |-> a[n] \div 2]

\* the physical dimension of a unit: exponents of length, time, charge count, angle
Dimension(u) ==
    [length   |-> u["nm"] + u["mm"] + u["m"] + u["km"],
     time     |-> u["ms"] + u["s"],
     electron |-> u["electron"],
     angle    |-> u["deg"] + u["rad"]]

\* a scale that takes the millisecond for a microsecond
Scale10_Microsecond(u) == (3 * u["km"]) - (3 * u["mm"]) - (9 * u["nm"]) - (6 * u["ms"])

\* the decimal exponent of a unit against the unprefixed units
Scale10(u) == (3 * u["km"]) - (3 * u["mm"]) - (9 * u["nm"]) - (3 * u["ms"])

\* str(unit) of a unit made of one named unit, "" for the dimensionless one
UnitString(u) ==
    IF u = dimensionless_unscaled THEN ""
    ELSE IF \E n \in UnitNames : u = U(n) THEN CHOOSE n \in UnitNames : u = U(n)
    ELSE IF \E n \in UnitNames : u = UInv(U(n))
         THEN (CHOOSE n \in UnitNames : u = UInv(U(n)))
         ELSE "composite"

(***************************************************************************)
(* Quantities: numpy arrays (or scalars) of fixed-point numbers with a     *)
(* unit.  A quantity's number i is v[i] / 10^q; arr tells an array from a  *)
(* scalar.                                                                 *)
(***************************************************************************)
Scalar(x, q, u) == [v |-> << x >>, arr |-> FALSE, q |-> q, u |-> u]
Array(xs, q, u) == [v |-> xs, arr |-> TRUE, q |-> q, u |-> u]

\* numpy broadcasting of a scalar against an array, or of two equal shapes
Shape(a, b) == IF a.arr THEN Len(a.v) ELSE Len(b.v)
At(a, i) == IF a.arr THEN a.v[i] ELSE a.v[1]
Broadcastable(a, b) == (a.arr /\ b.arr) => Len(a.v) = Len(b.v)

\* np.arange(start, stop, step): start, start + step, ... below stop
ArangeLen(start, stop, step) ==
    IF stop <= start THEN 0 ELSE ((stop - start) + (step - 1)) \div step
np_arange(start, stop, step) ==
    [i \in 1..ArangeLen(start, stop, step) |-> start + ((i - 1) * step)]

(***************************************************************************)
(* Outputs recorded in the notebooks, as fixed-point integers (floor).     *)
(***************************************************************************)
\* signal in electrons, per wavelength 900, 925, ... nm
RecordedSignal ==
    << 4418770, 5500181, 3569032, 6089407, 8296936, 7775406, 7182477, 6376409,
       4915374, 1790936, 2112976, 3744641, 3671237, 3950334, 3826442, 3287579,
       3057825, 2268637, 620621, 321088, 279089, 499668, 618521, 1003621,
       1499640, 1731525, 1754569, 1512038, 1438226, 1350882, 1146270, 999172 >>

\* signal-to-noise ratio in 1/1000, per wavelength 900, 925, ... nm
RecordedSnr ==
    << 188531, 234440, 152394, 259417, 352754, 330737, 305680, 271573,
       209625, 76595, 90342, 159867, 156744, 168617, 163347, 140412,
       130627, 96983, 26571, 13750, 11952, 21395, 26481, 42954,
       64154, 74058, 75042, 64684, 61530, 57798, 49053, 42764 >>

\* spectral resolution in 1e-6 nm, per fringe frequency 10, 20, ... 1/mm
RecordedSpectralResolution ==
    << 13750000, 6875000, 4583333, 3437500, 2750000, 2291666, 1964285, 1718750,
       1527777, 1375000, 1250000, 1145833, 1057692, 982142, 916666, 859375,
       808823, 763888, 723684, 687500, 654761, 625000, 597826, 572916,
       550000, 528846, 509259, 491071, 474137, 458333, 443548, 429687,
       416666, 404411, 392857, 381944, 371621, 361842, 352564, 343750,
       335365, 327380, 319767, 312500, 305555, 298913, 292553, 286458,
       280612, 275000, 269607, 264423, 259433, 254629, 250000, 245535,
       241228, 237068, 233050, 229166, 225409, 221774, 218253, 214843,
       211538, 208333, 205223, 202205, 199275, 196428, 195312, 195312,
       195312, 195312, 195312, 195312, 195312, 195312, 195312, 195312,
       195312, 195312, 195312, 195312, 195312, 195312, 195312, 195312,
       195312, 195312, 195312, 195312, 195312, 195312, 195312, 195312,
       195312, 195312, 195312, 195312, 195312, 195312, 195312, 195312,
       195312, 195312, 195312, 195312, 195312, 195312, 195312, 195312,
       195312, 195312, 195312, 195312, 195312, 195312, 195312 >>

\* grism efficiency in 1e-6, per fringe frequency 10, 20, ... 1/mm
RecordedEfficiency ==
    << 21174, 82905, 179964, 304129, 444884, 590307, 728082, 846538,
       935643, 987849, 998734, 967377, 896434, 791913, 662667, 519644,
       374956, 240860, 128712, 48012, 5596, 5054, 46434, 126231,
       237686, 371358, 515926, 659145, 788885, 894156, 966043, 998456,
       988650, 937456, 849210, 731386, 593963, 448582, 307556, 182830,
       84968, 22259, 13, 20117, 80865, 177115, 300712, 441189,
       586647, 724766, 843847, 933805, 987020, 998985, 968686, 898690,
       794925, 666180, 523360, 378561, 244048, 131214, 49615, 6164,
       4540, 44882, 123771, 234526, 367767, 512208, 655615, 785841,
       891857, 964683, 998150, 989425, 939245, 851862, 734677, 597614,
       452284, 310995, 185715, 87054, 23369, 55, 19085, 78849,
       174283, 297306, 437496, 582981, 721437, 841137, 931944, 986165,
       999208, 969969, 900923, 797920, 669684, 527075, 382173, 247250,
       133736, 51243, 6760, 4054, 43354, 121331, 231382, 364184,
       508489, 652076, 782781, 889536, 963297, 997817, 990172 >>

\* ground target error in mm, per pointing accuracy 0.0001, 0.0011, ... deg
RecordedGroundTargetError ==
    << 872, 9599, 18325, 27052, 35779, 44505,
       53232, 61959, 70685, 79412, 88139, 96865,
       105592, 114319, 123045, 131772, 140499, 149225,
       157952, 166678, 175405, 184132, 192858, 201585,
       210312, 219038, 227765, 236492, 245218, 253945,
       262672, 271398, 280125, 288852, 297578, 306305,
       315031, 323758, 332485, 341211, 349938, 358665,
       367391, 376118, 384845, 393571, 402298, 411025,
       419751, 428478, 437205, 445931, 454658, 463385,
       472111, 480838, 489565, 498291, 507018, 515744,
       524471, 533198, 541924, 550651, 559378, 568104,
       576831, 585558, 594284, 603011, 611738, 620464,
       629191, 637918, 646644, 655371, 664098, 672824,
       681551, 690278, 699004, 707731, 716458, 725184,
       733911, 742638, 751364, 760091, 768818, 777544,
       786271, 794998, 803724, 812451, 821178, 829904,
       838631, 847358, 856084, 864811 >>

(***************************************************************************)
(* Elementwise arithmetic on fixed-point numbers.                          *)
(***************************************************************************)
Times(x, y) == x * y
Minus(x, y) == x - y

\* division keeping six digits after the decimal point
FixDiv(x, y) == (x * 1000000) \div y

\* quantity.to(unit): the same quantity expressed in a unit of its dimension
Rescale(x, e) == IF e >= 0 THEN x * Pow10(e) ELSE x \div Pow10(0 - e)
To(a, unit, q) ==
    [v   |-> [i \in 1..Len(a.v) |->
                 Rescale(a.v[i], (Scale10(a.u) - Scale10(unit)) + (q - a.q))],
     arr |-> a.arr,
     q   |-> q,
     u   |-> unit]

(***************************************************************************)
(* Components.                                                             *)
(***************************************************************************)
\* sensors.TauSWIR(): the attributes the models read
TauSWIR ==
    [n_px          |-> 512,
     dark_sqr      |-> [v |-> << 544662244 >>, arr |-> FALSE, q |-> 0 - 6,
                        u |-> UMul(UMul(U("electron"), U("electron")),
                                   UDiv(UMul(U("ms"), U("ms")), UMul(U("s"), U("s"))))],
     quantization_sqr |-> Scalar(112069, 6, UMul(U("electron"), U("electron"))),
     read_sqr      |-> Scalar(250000, 0, UMul(U("electron"), U("electron")))]

Foreoptic(focal_length, diameter, image_diameter) ==
    [focal_length |-> focal_length, diameter |-> diameter,
     image_diameter |-> image_diameter]

RectSlit(size) == [size |-> size]

VPHGrism(index_dcg_amplitude, index_dcg, dcg_thickness, fringe_frequency) ==
    [index_dcg_amplitude |-> index_dcg_amplitude,
     index_dcg           |-> index_dcg,
     dcg_thickness       |-> dcg_thickness,
     fringe_frequency    |-> fringe_frequency]

\* spectrometers.HyperspectralImager(sensor=, foreoptic=, slit=, diffractor=):
\* a component that is not given is None
HyperspectralImager(sensor, foreoptic, slit, diffractor) ==
    [sensor |-> sensor, foreoptic |-> foreoptic, slit |-> slit,
     diffractor |-> diffractor]

(***************************************************************************)
(* The models.  Each get_* method reads the attributes of the object it is *)
(* called on and its arguments, and returns a new quantity.                *)
(***************************************************************************)
Electron2 == UMul(U("electron"), U("electron"))

\* a ratio that keeps the whole part of the quotient only
Ratio_Whole(signal, noise_sqr) == (signal \div ISqrt(noise_sqr)) * 1000

\* signal / noise in 1/1000, for a signal in electrons and a squared noise in
\* electron^2
Ratio(signal, noise_sqr) ==
    LET s     == ISqrt(noise_sqr)
        noise == (s * 10) + (((noise_sqr - (s * s)) * 10) \div (2 * s))
        whole == (signal * 10) \div noise
        rest  == (signal * 10) % noise
    IN  (whole * 1000) + ((rest * 1000) \div noise)

Plus(x, y) == x + y

\* tan of an angle given in 1e-4 deg, in 1e-9: x + x^3 / 3 with x in rad
TanNano(a) ==
    LET nano  == (a * 1745329) \div 1000
        micro == nano \div 1000
    IN  nano + ((((micro * micro) \div 1000) * micro) \div 3000000)

\* orbital altitude times tan(pointing accuracy), for an altitude in km and an
\* angle in 1e-4 deg: a length in 1e-6 km
TargetError(h, a) == (h * TanNano(a)) \div 1000

\* the arithmetic of a numpy operation, by its name
Apply(op, x, y) ==
    CASE op = "multiply" -> Times(x, y)
      [] op = "subtract" -> Minus(x, y)
      [] op = "divide"   -> FixDiv(x, y)
      [] op = "add"      -> Plus(x, y)
      [] op = "maximum"  -> Max(x, y)
      [] op = "ratio"    -> Ratio(x, y)
      [] op = "target"   -> TargetError(x, y)

\* a numpy operation on two quantities: elementwise, a scalar broadcast
Elementwise(op, a, b, q, u) ==
    [v   |-> [i \in 1..Shape(a, b) |-> Apply(op, At(a, i), At(b, i))],
     arr |-> a.arr \/ b.arr,
     q   |-> q,
     u   |-> u]

\* HyperspectralImager.get_spectral_resolution: the larger of the optics-limited
\* and the sensor-limited resolution, per fringe frequency of the diffractor
get_spectral_resolution(payload, upper_wavelength, lower_wavelength, target_wavelength, beam_diameter) ==
    LET fringe_frequency == Get(Get(payload.diffractor).fringe_frequency)
        lines  == Elementwise("multiply", fringe_frequency, beam_diameter, 0,
                              UMul(fringe_frequency.u, beam_diameter.u))
        optics == Elementwise("divide", target_wavelength, lines, 6,
                              UDiv(target_wavelength.u, lines.u))
        band   == Elementwise("subtract", upper_wavelength,
                              To(lower_wavelength, upper_wavelength.u, 0), 0,
                              upper_wavelength.u)
        n_px   == Scalar(Get(payload.sensor).n_px, 0, dimensionless_unscaled)
        sensor == Elementwise("divide", band, n_px, 6, band.u)
    IN  Elementwise("maximum", optics, To(sensor, optics.u, 6), 6, optics.u)

\* the signal in electrons the payload collects at one wavelength (in nm) of the
\* radiance look-up table
SignalAt(wl) == RecordedSignal[((wl - 900) \div 25) + 1]

\* squared noises without the shot noise of the signal
noise_terms_NoShot(sensor, signal) ==
    [shot_sqr         |-> [signal EXCEPT !.v = [i \in 1..Len(signal.v) |-> 0],
                                         !.u = Electron2],
     dark_sqr         |-> sensor.dark_sqr,
     quantization_sqr |-> sensor.quantization_sqr,
     read_sqr         |-> sensor.read_sqr]

\* the squared noises of get_signal_to_noise, as it prints them: the shot noise
\* of a signal in electrons, and the dark, quantization and read noise of the
\* sensor
noise_terms(sensor, signal) ==
    [shot_sqr         |-> [signal EXCEPT !.u = Electron2],
     dark_sqr         |-> sensor.dark_sqr,
     quantization_sqr |-> sensor.quantization_sqr,
     read_sqr         |-> sensor.read_sqr]

\* the sum of the squared noises: astropy converts a term to the unit of the
\* sum before it adds it
noise_sum(terms) ==
    LET sum1 == Elementwise("add", terms.shot_sqr, To(terms.dark_sqr, Electron2, 0),
                            0, Electron2)
        sum2 == Elementwise("add", sum1, To(terms.quantization_sqr, Electron2, 0),
                            0, Electron2)
    IN  Elementwise("add", sum2, To(terms.read_sqr, Electron2, 0), 0, Electron2)

\* signal / sqrt(sum of the squared noises)
signal_to_noise(sensor, signal) ==
    LET noise_sqr == noise_sum(noise_terms(sensor, signal))
    IN  Elementwise("ratio", signal, noise_sqr, 3, UDiv(signal.u, USqrt(noise_sqr.u)))

\* HyperspectralImager.get_signal_to_noise
get_signal_to_noise(payload, radiance, wavelength) ==
    LET signal == [v |-> [i \in 1..Len(wavelength.v) |-> SignalAt(wavelength.v[i])],
                   arr |-> wavelength.arr, q |-> 0, u |-> U("electron")]
    IN  signal_to_noise(Get(payload.sensor), signal)

\* a ground target error left in the unit of the altitude
get_ground_target_error_Kilometres(system, orbital_altitude, skew_angle, pointing_accuracy) ==
    To(Elementwise("target", orbital_altitude, pointing_accuracy, 6,
                   orbital_altitude.u),
       orbital_altitude.u, 3)

\* HyperspectralImager.get_ground_target_error, for skew angle 0
get_ground_target_error(system, orbital_altitude, skew_angle, pointing_accuracy) ==
    To(Elementwise("target", orbital_altitude, pointing_accuracy, 6,
                   orbital_altitude.u),
       U("m"), 3)

\* sin^2 of an angle y of 0 to pi/4, y in 1e-7 rad, the result in 1e-6:
\* y^2 - y^4/3 + 2y^6/45 - y^8/315
SqSin(y) ==
    LET t  == y \div 1000
        u  == t * t
        u2 == (((u \div 10000) * (u \div 1000))) \div 1000
        u3 == (((u2 \div 10) * (u \div 10000))) \div 1000
        u4 == (((u3 \div 10) * (u \div 10000))) \div 1000
    IN  ((u \div 100) + ((2 * u3) \div 45)) - ((u2 \div 3) + (u4 \div 315))

\* sin^2 of a phase of 0 or more, in 1e-7 rad, the result in 1e-6: the phase is
\* reduced by sin^2(x + pi) = sin^2(x), sin^2(pi - x) = sin^2(x) and
\* sin^2(x) = 1 - sin^2(pi/2 - x)
Sin2(phase) ==
    LET x == phase % 31415927
        y == IF x > 15707963 THEN 31415927 - x ELSE x
    IN  IF y <= 7853982 THEN SqSin(y) ELSE 1000000 - SqSin(15707963 - y)

\* an efficiency given as a percentage
efficiency_of_phase_Percent(fringe_frequency, coefficient) ==
    [v   |-> [i \in 1..Len(fringe_frequency.v) |->
                 100 * Sin2(coefficient * fringe_frequency.v[i])],
     arr |-> fringe_frequency.arr,
     q   |-> 6,
     u   |-> dimensionless_unscaled]

\* the efficiency of a volume phase grating: sin^2 of a phase that grows with
\* the fringe frequency, by a coefficient (in 1e-7 rad mm) that the index
\* modulation, the thickness and the incident angle fix
efficiency_of_phase(fringe_frequency, coefficient) ==
    [v   |-> [i \in 1..Len(fringe_frequency.v) |->
                 Sin2(coefficient * fringe_frequency.v[i])],
     arr |-> fringe_frequency.arr,
     q   |-> 6,
     u   |-> dimensionless_unscaled]

\* the efficiency in 1e-6 of the grism of the tradebook at one fringe frequency
EfficiencyAt(ff) == RecordedEfficiency[ff \div 10]

\* VPHGrism.get_efficiency
get_efficiency(diffractor, incident_angle, order, n_air) ==
    LET fringe_frequency == Get(diffractor.fringe_frequency)
    IN  [v   |-> [i \in 1..Len(fringe_frequency.v) |->
                     EfficiencyAt(fringe_frequency.v[i])],
         arr |-> fringe_frequency.arr,
         q   |-> 6,
         u   |-> dimensionless_unscaled]

(***************************************************************************)
(* The tradebooks.  A tradebook is a notebook: an import cell, then the    *)
(* cells "from Setup onward": Parameters, Instantiation, Pipeline, Plots   *)
(* and, in two of them, a cell that saves the data and the figure.         *)
(***************************************************************************)
Books == {"snr", "spectral_resolution", "efficiency", "ground_target_error"}

\* the cells in another order: Instantiation above Parameters
SetupOnward_InstantiationFirst(b) ==
    IF b \in {"snr", "ground_target_error"}
    THEN << "Instantiation", "Parameters", "Pipeline", "Plots", "Save" >>
    ELSE << "Instantiation", "Parameters", "Pipeline", "Plots" >>

SetupOnward(b) ==
    IF b \in {"snr", "ground_target_error"}
    THEN << "Parameters", "Instantiation", "Pipeline", "Plots", "Save" >>
    ELSE << "Parameters", "Instantiation", "Pipeline", "Plots" >>

\* the source of a Parameters cell: the swept array, written as np.arange(...)
\* or as an explicit array, and the constant of the cell that is edited
ArangeOf(start, stop, step, const) ==
    [arange |-> TRUE, start |-> start, stop |-> stop, step |-> step,
     vals |-> << >>, const |-> const]
ArrayOf(vals, const) ==
    [arange |-> FALSE, start |-> 0, stop |-> 0, step |-> 0,
     vals |-> vals, const |-> const]

\* the Parameters cells as they are in the repository
NotebookParameters(b) ==
    CASE b = "snr"                 -> ArangeOf(900, 1700, 25, 0)
      [] b = "spectral_resolution" -> ArangeOf(10, 1200, 10, 12)
      [] b = "efficiency"          -> ArangeOf(10, 1200, 10, 0)
      [] b = "ground_target_error" -> ArangeOf(1, 1000, 10, 500)

\* values an edited Parameters cell sweeps over, and values of its constant
Grid(b) ==
    CASE b = "snr"                 -> {900, 1400}
      [] b = "spectral_resolution" -> {10, 1150}
      [] b = "efficiency"          -> {10, 1180}
      [] b = "ground_target_error" -> {1, 991}
ConstChoices(b) ==
    CASE b = "snr"                 -> {0}
      [] b = "spectral_resolution" -> {12, 24}
      [] b = "efficiency"          -> {0}
      [] b = "ground_target_error" -> {500, 550}

ParameterChoices(b) ==
    { ArangeOf(NotebookParameters(b).start, NotebookParameters(b).stop,
               NotebookParameters(b).step, c) : c \in ConstChoices(b) }
    \cup { ArrayOf(vals, NotebookParameters(b).const) :
              vals \in SeqsUpTo(Grid(b), MaxLen) }

SweepValues(p) ==
    IF p.arange THEN np_arange(p.start, p.stop, p.step) ELSE p.vals

\* a Parameters cell whose sweep is not assigned: fringe_frequency keeps the
\* scalar of the constants region, and the other sweeps lose their last value
SweepQuantity_NotSwept(b, p) ==
    CASE b = "snr"                 -> Array(SubSeq(SweepValues(p), 1, Len(SweepValues(p)) - 1),
                                            0, U("nm"))
      [] b = "spectral_resolution" -> Scalar(600, 0, UInv(U("mm")))
      [] b = "efficiency"          -> Scalar(600, 0, UInv(U("mm")))
      [] b = "ground_target_error" -> Array(SubSeq(SweepValues(p), 1, Len(SweepValues(p)) - 1),
                                            4, U("deg"))

\* the swept variable of a Parameters cell: wavelength, fringe_frequency or
\* pointing_accuracy
SweepQuantity(b, p) ==
    CASE b = "snr"                 -> Array(SweepValues(p), 0, U("nm"))
      [] b = "spectral_resolution" -> Array(SweepValues(p), 0, UInv(U("mm")))
      [] b = "efficiency"          -> Array(SweepValues(p), 0, UInv(U("mm")))
      [] b = "ground_target_error" -> Array(SweepValues(p), 4, U("deg"))

\* Parameters cells with a constant that lost its unit
Constants_NoUnit(b, p) ==
    CASE b = "snr"                 -> [none |-> 0]
      [] b = "spectral_resolution" ->
            [target_wavelength |-> Scalar(1650, 0, U("nm")),
             lower_wavelength  |-> Scalar(1600, 0, U("nm")),
             upper_wavelength  |-> Scalar(1700, 0, U("nm")),
             beam_diameter     |-> Scalar(p.const, 0, dimensionless_unscaled)]
      [] b = "efficiency"          ->
            [d              |-> Scalar(25, 1, U("mm")),
             n_2            |-> Scalar(152, 2, dimensionless_unscaled),
             n_g            |-> Scalar(1, 1, dimensionless_unscaled),
             incident_angle |-> Scalar(60, 0, U("rad"))]
      [] b = "ground_target_error" ->
            [orbital_altitude |-> Scalar(p.const, 0, U("km")),
             skew_angle       |-> Scalar(0, 0, U("deg"))]

\* Parameters cells with the two ends of the band exchanged
Constants_BandExchanged(b, p) ==
    CASE b = "snr"                 -> [none |-> 0]
      [] b = "spectral_resolution" ->
            [target_wavelength |-> Scalar(1650, 0, U("nm")),
             lower_wavelength  |-> Scalar(1700, 0, U("nm")),
             upper_wavelength  |-> Scalar(1600, 0, U("nm")),
             beam_diameter     |-> Scalar(p.const, 0, U("mm"))]
      [] b = "efficiency"          ->
            [d              |-> Scalar(25, 1, U("mm")),
             n_2            |-> Scalar(152, 2, dimensionless_unscaled),
             n_g            |-> Scalar(1, 1, dimensionless_unscaled),
             incident_angle |-> Scalar(60, 0, U("rad"))]
      [] b = "ground_target_error" ->
            [orbital_altitude |-> Scalar(p.const, 0, U("km")),
             skew_angle       |-> Scalar(0, 0, U("deg"))]

\* the constants of a Parameters cell
Constants(b, p) ==
    CASE b = "snr"                 -> [none |-> 0]
      [] b = "spectral_resolution" ->
            [target_wavelength |-> Scalar(1650, 0, U("nm")),
             lower_wavelength  |-> Scalar(1600, 0, U("nm")),
             upper_wavelength  |-> Scalar(1700, 0, U("nm")),
             beam_diameter     |-> Scalar(p.const, 0, U("mm"))]
      [] b = "efficiency"          ->
            [d              |-> Scalar(25, 1, U("mm")),
             n_2            |-> Scalar(152, 2, dimensionless_unscaled),
             n_g            |-> Scalar(1, 1, dimensionless_unscaled),
             incident_angle |-> Scalar(60, 0, U("rad"))]
      [] b = "ground_target_error" ->
            [orbital_altitude |-> Scalar(p.const, 0, U("km")),
             skew_angle       |-> Scalar(0, 0, U("deg"))]

(***************************************************************************)
(* The kernel: the variables the cells have assigned (None: not defined),  *)
(* the table the Plots cell displayed, and the files the Save cell wrote.  *)
(***************************************************************************)
EmptyKernel ==
    [sweep |-> None, consts |-> None, sensor |-> None, foreoptic |-> None,
     slit |-> None, diffractor |-> None, system |-> None, radiance |-> None,
     result |-> None, xlabel |-> None, ylabel |-> None, df |-> None,
     graph |-> None, fig |-> None,
     displayed |-> None, data_csv |-> None, figure_html |-> None,
     raised |-> ""]

\* a cell that reads a name that is not defined stops with a NameError; what it
\* assigned before stays assigned
NameError(k) == [k EXCEPT !.raised = "NameError"]

(***************************************************************************)
(* The cells, as functions of the kernel they run in.  imp: the import     *)
(* cell has run in this kernel.                                            *)
(***************************************************************************)
\* "### Parameters"
ParametersCell(b, p, imp, k0) ==
    LET k == [k0 EXCEPT !.raised = ""]
    IN  IF ~imp THEN NameError(k)
        ELSE [k EXCEPT !.consts = Some(Constants(b, p)),
                       !.sweep  = Some(SweepQuantity(b, p))]

\* "### Instantiation"
InstantiationCell(b, imp, k0) ==
    LET k == [k0 EXCEPT !.raised = ""]
        mm(x) == Scalar(x, 0, U("mm"))
    IN  IF ~imp THEN NameError(k)
        ELSE CASE b = "snr" ->
                 LET sensor    == TauSWIR
                     foreoptic == Foreoptic(mm(100), mm(35), mm(10))
                     slit      == RectSlit(<< mm(1), mm(20) >>)
                 IN  [k EXCEPT !.sensor = Some(sensor),
                               !.foreoptic = Some(foreoptic),
                               !.slit = Some(slit),
                               !.system = Some(HyperspectralImager(
                                   Some(sensor), Some(foreoptic), Some(slit), None))]
          [] b = "spectral_resolution" ->
                 LET k1 == [k EXCEPT !.sensor = Some(TauSWIR)]
                 IN  IF ~IsSome(k.sweep) THEN NameError(k1)
                     ELSE LET diffractor == VPHGrism(None, None, None, k.sweep)
                          IN  [k1 EXCEPT !.diffractor = Some(diffractor),
                                         !.system = Some(HyperspectralImager(
                                             Some(TauSWIR), None, None,
                                             Some(diffractor)))]
          [] b = "efficiency" ->
                 IF ~IsSome(k.consts) \/ ~IsSome(k.sweep) THEN NameError(k)
                 ELSE LET c == Get(k.consts)
                      IN  [k EXCEPT !.diffractor =
                              Some(VPHGrism(Some(c.n_g), Some(c.n_2), Some(c.d),
                                            k.sweep))]
          [] b = "ground_target_error" ->
                 [k EXCEPT !.system = Some(HyperspectralImager(None, None, None, None))]

\* "## Pipeline"
PipelineCell(b, imp, k0) ==
    LET k == [k0 EXCEPT !.raised = ""]
    IN  IF ~imp THEN NameError(k)
        ELSE CASE b = "snr" ->
                 LET k1 == [k EXCEPT !.radiance = Some("atmosphere/radiance_min")]
                 IN  IF ~IsSome(k.system) \/ ~IsSome(k.sweep) THEN NameError(k1)
                     ELSE [k1 EXCEPT !.result = Some(get_signal_to_noise(
                               Get(k.system), Get(k1.radiance), Get(k.sweep)))]
          [] b = "spectral_resolution" ->
                 IF ~IsSome(k.system) \/ ~IsSome(k.consts) THEN NameError(k)
                 ELSE LET c == Get(k.consts)
                      IN  [k EXCEPT !.result = Some(get_spectral_resolution(
                               Get(k.system), c.upper_wavelength, c.lower_wavelength,
                               c.target_wavelength, c.beam_diameter))]
          [] b = "efficiency" ->
                 IF ~IsSome(k.diffractor) \/ ~IsSome(k.consts) THEN NameError(k)
                 ELSE [k EXCEPT !.result = Some(get_efficiency(
                           Get(k.diffractor), Get(k.consts).incident_angle,
                           Scalar(1, 0, dimensionless_unscaled),
                           Scalar(1, 0, dimensionless_unscaled)))]
          [] b = "ground_target_error" ->
                 IF ~IsSome(k.system) \/ ~IsSome(k.consts) \/ ~IsSome(k.sweep)
                 THEN NameError(k)
                 ELSE LET c == Get(k.consts)
                      IN  [k EXCEPT !.result = Some(get_ground_target_error(
                               Get(k.system), c.orbital_altitude, c.skew_angle,
                               Get(k.sweep)))]

\* the titles of the two columns of a tradebook's table
SweepTitle(b) ==
    CASE b = "snr"                 -> "Wavelengths"
      [] b = "spectral_resolution" -> "Fringe Frequency"
      [] b = "efficiency"          -> "Fringe Frequency"
      [] b = "ground_target_error" -> "Pointing Accuracy"
ResultTitle(b) ==
    CASE b = "snr"                 -> "SNR"
      [] b = "spectral_resolution" -> "Spectral Resolution"
      [] b = "efficiency"          -> "Grism Efficiency"
      [] b = "ground_target_error" -> "Ground Target Error"

\* f"{title} [{quantity.unit}]"
Label(title, quantity) == << title, UnitString(quantity.u) >>

\* pd.DataFrame.from_dict({x_label: x, y_label: y}): row i holds x[i] and y[i]
DataFrame(x_label, x, y_label, y) ==
    [columns |-> << x_label, y_label >>,
     rows    |-> [i \in 1..Len(x.v) |-> << x.v[i], y.v[i] >>]]

\* "## Plots"
PlotsCell(b, imp, k0) ==
    LET k == [k0 EXCEPT !.raised = ""]
    IN  IF ~imp \/ ~IsSome(k.sweep) THEN NameError(k)
        ELSE LET x  == Get(k.sweep)
                 k1 == [k EXCEPT !.xlabel = Some(Label(SweepTitle(b), x))]
             IN  IF ~IsSome(k.result) THEN NameError(k1)
                 ELSE LET y  == Get(k.result)
                          k2 == [k1 EXCEPT !.ylabel = Some(Label(ResultTitle(b), y))]
                          df == DataFrame(Get(k2.xlabel), x, Get(k2.ylabel), y)
                      IN  IF Len(x.v) # Len(y.v)
                          THEN [k2 EXCEPT !.raised = "ValueError"]
                          ELSE [k2 EXCEPT !.df = Some(df), !.graph = Some(df),
                                          !.displayed = Some(df)]

\* the last cell of the snr and ground target error tradebooks: df.to_csv(...),
\* then plot.save(fig=...)
SaveCell(b, imp, k0) ==
    LET k == [k0 EXCEPT !.raised = ""]
    IN  IF ~imp \/ ~IsSome(k.df) THEN NameError(k)
        ELSE LET k1  == [k EXCEPT !.data_csv = k.df]
                 fig == IF b = "snr" THEN k.graph ELSE k.fig
             IN  IF ~IsSome(fig) THEN NameError(k1)
                 ELSE [k1 EXCEPT !.figure_html = fig]

RunCell(b, p, imp, cell, k) ==
    CASE cell = "Parameters"    -> ParametersCell(b, p, imp, k)
      [] cell = "Instantiation" -> InstantiationCell(b, imp, k)
      [] cell = "Pipeline"      -> PipelineCell(b, imp, k)
      [] cell = "Plots"         -> PlotsCell(b, imp, k)
      [] cell = "Save"          -> SaveCell(b, imp, k)

\* the kernel after the cells of a sequence have run in order
RECURSIVE RunCells(_, _, _, _, _)
RunCells(b, p, imp, cells, k) ==
    IF cells = << >> THEN k
    ELSE RunCells(b, p, imp, Tail(cells), RunCell(b, p, imp, Head(cells), k))

(***************************************************************************)
(* State.                                                                  *)
(***************************************************************************)
VARIABLES
    \* a tradebook in a Jupyter kernel
    book,      \* the tradebook that is open
    imported,  \* the import cell has run in the kernel
    params,    \* the source of the Parameters cell
    edits,     \* number of edits of the Parameters cell
    kernel,    \* the kernel's variables, the displayed table, the saved files
    progress,  \* how many cells from Setup onward the latest runs have covered,
               \* in order, since the Parameters cell was last edited
    \* calls of the models on one system
    system,    \* the system the methods are called on
    calls,     \* the calls made: method, arguments, result
    \* git commit with the pre-commit hooks installed
    staged,    \* the kinds of files staged for the commit being made
    run,       \* the pre-commit run of the commit being made
    attempts,  \* number of times git commit was called
    commits,   \* the commits recorded, each with the report of its run
    \* the branches on GitHub and the runs of the Pipeline workflow
    created,   \* number of commits made
    main,      \* the commits of branch main, the head last
    pull,      \* the commit of the open pull request, if any
    events,    \* number of events GitHub has seen
    ignored,   \* the events that started no run
    runs       \* the runs of the workflow

bookVars == << book, imported, params, edits, kernel, progress >>
callVars == << system, calls >>
commitVars == << staged, run, attempts, commits >>
pipelineVars == << created, main, pull, events, ignored, runs >>
vars == << bookVars, callVars, commitVars, pipelineVars >>

InitBook ==
    /\ book \in Books
    /\ imported = FALSE
    /\ params = NotebookParameters(book)
    /\ edits = 0
    /\ kernel = EmptyKernel
    /\ progress = 0

(***************************************************************************)
(* The user's steps in a tradebook.                                        *)
(***************************************************************************)
\* run the import cell
RunImports ==
    /\ ~imported
    /\ imported' = TRUE
    /\ progress' = 0
    /\ UNCHANGED << book, params, edits, kernel >>
    /\ UNCHANGED << callVars, commitVars, pipelineVars >>

\* change the Parameters cell; nothing runs
EditParameters ==
    /\ edits < MaxEdits
    /\ \E p \in ParameterChoices(book) :
          /\ p # params
          /\ params' = p
    /\ edits' = edits + 1
    /\ progress' = 0
    /\ UNCHANGED << book, imported, kernel >>
    /\ UNCHANGED << callVars, commitVars, pipelineVars >>

\* the latest runs are the first n cells from Setup onward, in order: running
\* the next cell extends them, running Parameters starts over
Advance(b, n, cell) ==
    IF n < Len(SetupOnward(b)) /\ cell = SetupOnward(b)[n + 1] THEN n + 1
    ELSE IF cell = "Parameters" THEN 1
    ELSE 0

Run(cell) ==
    /\ cell \in Range(SetupOnward(book))
    /\ kernel' = RunCell(book, params, imported, cell, kernel)
    /\ progress' = Advance(book, progress, cell)
    /\ UNCHANGED << book, imported, params, edits >>
    /\ UNCHANGED << callVars, commitVars, pipelineVars >>

RunParameters == Run("Parameters")
RunInstantiation == Run("Instantiation")
RunPipeline == Run("Pipeline")
RunPlots == Run("Plots")
RunSave == Run("Save")

NextBook ==
    \/ RunImports
    \/ EditParameters
    \/ RunParameters
    \/ RunInstantiation
    \/ RunPipeline
    \/ RunPlots
    \/ RunSave

(***************************************************************************)
(* Properties of the tradebooks.                                           *)
(***************************************************************************)
\* the kernel after the cells from Setup onward have run once, in order, in a
\* kernel that held nothing but the imports
FreshKernel(b, p) == RunCells(b, p, TRUE, SetupOnward(b), EmptyKernel)

\* the latest runs cover the first n cells from Setup onward, after the imports
Covered(n) == imported /\ progress >= n

\* the number a tradebook's model returns for the single swept value x
ModelAt(b, c, x) ==
    LET payload(ff) == HyperspectralImager(Some(TauSWIR), None, None,
                           Some(VPHGrism(None, None, None, Some(ff))))
    IN  CASE b = "snr" ->
                get_signal_to_noise(payload(None), "atmosphere/radiance_min",
                                    Array(<< x >>, 0, U("nm"))).v[1]
          [] b = "spectral_resolution" ->
                get_spectral_resolution(payload(Array(<< x >>, 0, UInv(U("mm")))),
                    Scalar(1700, 0, U("nm")), Scalar(1600, 0, U("nm")),
                    Scalar(1650, 0, U("nm")), Scalar(c, 0, U("mm"))).v[1]
          [] b = "efficiency" ->
                get_efficiency(VPHGrism(None, None, None,
                                        Some(Array(<< x >>, 0, UInv(U("mm"))))),
                               Scalar(60, 0, U("rad")),
                               Scalar(1, 0, dimensionless_unscaled),
                               Scalar(1, 0, dimensionless_unscaled)).v[1]
          [] b = "ground_target_error" ->
                get_ground_target_error(payload(None), Scalar(c, 0, U("km")),
                    Scalar(0, 0, U("deg")), Array(<< x >>, 4, U("deg"))).v[1]

C2_RerunIsFresh ==
    Covered(Len(SetupOnward(book))) =>
        LET f == FreshKernel(book, params)
        IN  /\ kernel.sweep = f.sweep
            /\ kernel.consts = f.consts
            /\ kernel.sensor = f.sensor
            /\ kernel.foreoptic = f.foreoptic
            /\ kernel.slit = f.slit
            /\ kernel.diffractor = f.diffractor
            /\ kernel.system = f.system
            /\ kernel.result = f.result
            /\ kernel.df = f.df
            /\ kernel.displayed = f.displayed
            /\ kernel.data_csv = f.data_csv
            /\ IsSome(kernel.result)
            /\ IsSome(kernel.displayed)

\* C2 happens: the parameters were changed, and the cells from Setup onward ran
C2_Witness ==
    /\ Covered(Len(SetupOnward(book)))
    /\ edits > 0
    /\ params # NotebookParameters(book)
    /\ IsSome(kernel.data_csv)
    /\ Get(kernel.data_csv).rows # << >>

\* the dimension and the reported unit of a tradebook's result
Length == [length |-> 1, time |-> 0, electron |-> 0, angle |-> 0]
Pure == [length |-> 0, time |-> 0, electron |-> 0, angle |-> 0]
ResultDimension(b) ==
    IF b \in {"snr", "efficiency"} THEN Pure ELSE Length
ResultUnit(b) ==
    CASE b = "snr"                 -> ""
      [] b = "spectral_resolution" -> "nm"
      [] b = "efficiency"          -> ""
      [] b = "ground_target_error" -> "m"

\* C4: a result has the dimension of the quantity it models and is reported in
\* its unit: signal-to-noise ratio and efficiency dimensionless, spectral
\* resolution a length in nm, ground target error a length in m; the label of
\* the result's column shows that unit.
C4_ResultUnits ==
    /\ IsSome(kernel.result) =>
          /\ Dimension(Get(kernel.result).u) = ResultDimension(book)
          /\ UnitString(Get(kernel.result).u) = ResultUnit(book)
    /\ IsSome(kernel.ylabel) =>
          Get(kernel.ylabel) = << ResultTitle(book), ResultUnit(book) >>

\* C4 happens: a length and a dimensionless result have been labelled
C4_Witness ==
    /\ book = "ground_target_error"
    /\ IsSome(kernel.result)
    /\ IsSome(kernel.ylabel)
    /\ Len(Get(kernel.result).v) > 1

\* C7: the snr tradebook, as it is in the repository, sweeps the wavelengths
\* 900, 925, ..., 1700 nm: both ends of the range of its title.
C7_BothEndpoints ==
    (book = "snr" /\ params = NotebookParameters("snr") /\ Covered(1)) =>
        /\ IsSome(kernel.sweep)
        /\ Get(kernel.sweep).v = [i \in 1..33 |-> 900 + ((i - 1) * 25)]

\* the two limits of the spectral resolution at fringe frequency ff (1/mm) and
\* beam diameter d (mm), in 1e-6 nm
OpticsLimited(ff, d) == (1650 * 1000000) \div (ff * d)
SensorLimited == ((1700 - 1600) * 1000000) \div 512

\* C10: the spectral resolution is, per fringe frequency, the larger of the
\* optics-limited and the sensor-limited value; so it does not increase with
\* the fringe frequency, is never below the sensor-limited value and equals it
\* wherever the optics-limited value is below it; with the parameters of the
\* repository it is the recorded table.
C10_SpectralResolution ==
    (book = "spectral_resolution" /\ Covered(3)) =>
        /\ IsSome(kernel.result)
        /\ LET ff == SweepValues(params)
               r  == Get(kernel.result).v
               d  == params.const
           IN  /\ Len(r) = Len(ff)
               /\ \A i \in 1..Len(r) :
                     /\ r[i] = Max(OpticsLimited(ff[i], d), SensorLimited)
                     /\ r[i] >= SensorLimited
                     /\ (OpticsLimited(ff[i], d) <= SensorLimited) => r[i] = SensorLimited
               /\ \A i, j \in 1..Len(r) : (ff[i] <= ff[j]) => (r[i] >= r[j])
               /\ (params = NotebookParameters(book)) =>
                     /\ r = RecordedSpectralResolution
                     /\ r[1] = 13750000
                     /\ r[2] = 6875000
                     /\ \A i \in 115..Len(r) : r[i] = 195312

\* C10 happens: the tradebook of the repository has been evaluated
C10_Witness ==
    /\ book = "spectral_resolution"
    /\ Covered(3)
    /\ params = NotebookParameters(book)
    /\ IsSome(kernel.result)
    /\ Len(Get(kernel.result).v) = 119

(***************************************************************************)
(* Calls of the models on one system, in any order.                        *)
(***************************************************************************)
\* number of calls followed
MaxCalls == 3

\* a payload with every component the four methods read
FullPayload ==
    HyperspectralImager(
        Some(TauSWIR),
        Some(Foreoptic(Scalar(100, 0, U("mm")), Scalar(35, 0, U("mm")),
                       Scalar(10, 0, U("mm")))),
        Some(RectSlit(<< Scalar(1, 0, U("mm")), Scalar(20, 0, U("mm")) >>)),
        Some(VPHGrism(Some(Scalar(1, 1, dimensionless_unscaled)),
                      Some(Scalar(152, 2, dimensionless_unscaled)),
                      Some(Scalar(25, 1, U("mm"))),
                      Some(Array(<< 10, 700, 1150 >>, 0, UInv(U("mm")))))))

InitCalls ==
    /\ system = FullPayload
    /\ calls = << >>

\* the arguments the calls are made with
WavelengthChoices ==
    { Array(<< 900 >>, 0, U("nm")), Array(<< 1400, 900 >>, 0, U("nm")) }
BeamDiameterChoices == { Scalar(12, 0, U("mm")), Scalar(24, 0, U("mm")) }
AltitudeChoices == { Scalar(500, 0, U("km")), Scalar(550, 0, U("km")) }
PointingAccuracyChoices ==
    { Array(<< 1, 991 >>, 4, U("deg")), Array(<< 0, 1, 11 >>, 4, U("deg")) }

\* a method that adds into the sensor's read noise in place
AfterCall_Accumulates(payload, method) ==
    IF method = "get_signal_to_noise"
    THEN [payload EXCEPT !.sensor = Some([Get(payload.sensor) EXCEPT
                                             !.read_sqr.v = << 2 * @[1] >>])]
    ELSE payload

\* the system after a method has returned: the methods assign no attribute of
\* the system or of its components
AfterCall(payload, method) == payload

Call(method, args, result) ==
    /\ Len(calls) < MaxCalls
    /\ calls' = Append(calls, [method |-> method, args |-> args, result |-> result])
    /\ system' = AfterCall(system, method)
    /\ UNCHANGED << bookVars, commitVars, pipelineVars >>

CallSignalToNoise ==
    \E wavelength \in WavelengthChoices :
        Call("get_signal_to_noise", << wavelength >>,
             get_signal_to_noise(system, "atmosphere/radiance_min", wavelength))

CallSpectralResolution ==
    \E beam_diameter \in BeamDiameterChoices :
        Call("get_spectral_resolution", << beam_diameter >>,
             get_spectral_resolution(system, Scalar(1700, 0, U("nm")),
                 Scalar(1600, 0, U("nm")), Scalar(1650, 0, U("nm")), beam_diameter))

CallEfficiency ==
    Call("get_efficiency", << Scalar(60, 0, U("rad")) >>,
         get_efficiency(Get(system.diffractor), Scalar(60, 0, U("rad")),
                        Scalar(1, 0, dimensionless_unscaled),
                        Scalar(1, 0, dimensionless_unscaled)))

CallGroundTargetError ==
    \E orbital_altitude \in AltitudeChoices, pointing_accuracy \in PointingAccuracyChoices :
        Call("get_ground_target_error", << orbital_altitude, pointing_accuracy >>,
             get_ground_target_error(system, orbital_altitude,
                 Scalar(0, 0, U("deg")), pointing_accuracy))

NextCalls ==
    \/ CallSignalToNoise
    \/ CallSpectralResolution
    \/ CallEfficiency
    \/ CallGroundTargetError

(***************************************************************************)
(* get_signal_to_noise on the signal a radiance gives: the signal in       *)
(* electrons per wavelength is the input, the printed squared noises, their *)
(* sum and the returned ratio are kept.                                    *)
(***************************************************************************)
\* signals of the recorded run, the largest and the smallest among them, and
\* the signal of a radiance of zero
SignalGrid ==
    {0} \cup { RecordedSignal[i] : i \in {1, 5, 19, 20, 21, 22, 23, 24, 32} }
SignalChoices ==
    { Array(s, 0, U("electron")) : s \in SeqsUpTo(SignalGrid, MaxLen) \ { << >> } }

EvaluateSignalToNoise ==
    \E signal \in SignalChoices :
        /\ calls = << >>
        /\ IsSome(system.sensor)
        /\ LET sensor == Get(system.sensor)
               terms  == noise_terms(sensor, signal)
           IN  calls' = << [method    |-> "get_signal_to_noise",
                            args      |-> << signal >>,
                            printed   |-> terms,
                            noise_sqr |-> noise_sum(terms),
                            result    |-> signal_to_noise(sensor, signal)] >>
        /\ system' = AfterCall(system, "get_signal_to_noise")
        /\ UNCHANGED << bookVars, commitVars, pipelineVars >>

NextNoise == EvaluateSignalToNoise

(***************************************************************************)
(* get_efficiency at other incident angles and fringe frequencies than the *)
(* tradebook's.  How the incident angle enters the phase is not recorded:  *)
(* at an angle other than the tradebook's the coefficient is any of a set. *)
(***************************************************************************)
IncidentAngleChoices ==
    { Scalar(60, 0, U("rad")), Scalar(60, 0, U("deg")), Scalar(0, 0, U("rad")) }

\* the phase per fringe frequency, in 1e-7 rad mm: 0.0146034 rad mm in the
\* recorded run
PhaseChoices(incident_angle) ==
    IF incident_angle = Scalar(60, 0, U("rad"))
    THEN { 146034 }
    ELSE { 0, 73017, 146034, 1000000 }

FringeFrequencyGrid == { 10, 430, 600, 1190 }
FringeFrequencyChoices ==
    { Array(s, 0, UInv(U("mm"))) : s \in SeqsUpTo(FringeFrequencyGrid, MaxLen) \ { << >> } }

EvaluateEfficiency ==
    \E incident_angle \in IncidentAngleChoices,
       fringe_frequency \in FringeFrequencyChoices :
        \E coefficient \in PhaseChoices(incident_angle) :
            /\ calls = << >>
            /\ IsSome(system.diffractor)
            /\ calls' = << [method |-> "get_efficiency",
                            args   |-> << incident_angle, fringe_frequency >>,
                            phase  |-> coefficient,
                            result |-> efficiency_of_phase(fringe_frequency,
                                                          coefficient)] >>
            /\ system' = AfterCall(system, "get_efficiency")
            /\ UNCHANGED << bookVars, commitVars, pipelineVars >>

NextEfficiency == EvaluateEfficiency

(***************************************************************************)
(* git commit with the pre-commit hooks installed.                         *)
(***************************************************************************)
\* number of times git commit is called
MaxAttempts == 1

FileKinds == {"python", "jupyter", "other"}

\* the file with the local repo, and so pylint, above docformatter
hooks_PylintBeforeDocformatter ==
    << [id |-> "isort",          files |-> "python",  formats |-> TRUE],
       [id |-> "black",          files |-> "python",  formats |-> TRUE],
       [id |-> "autoflake",      files |-> "python",  formats |-> TRUE],
       [id |-> "pyupgrade",      files |-> "python",  formats |-> TRUE],
       [id |-> "pylint",         files |-> "python",  formats |-> FALSE],
       [id |-> "docformatter",   files |-> "python",  formats |-> TRUE],
       [id |-> "nbqa-isort",     files |-> "jupyter", formats |-> TRUE],
       [id |-> "nbqa-black",     files |-> "jupyter", formats |-> TRUE],
       [id |-> "nbqa-pyupgrade", files |-> "jupyter", formats |-> TRUE] >>

\* .pre-commit-config.yaml: the hooks, in the order of the file.  files: the
\* kind of file a hook is run on; formats: the hook rewrites the files
hooks ==
    << [id |-> "isort",          files |-> "python",  formats |-> TRUE],
       [id |-> "black",          files |-> "python",  formats |-> TRUE],
       [id |-> "autoflake",      files |-> "python",  formats |-> TRUE],
       [id |-> "pyupgrade",      files |-> "python",  formats |-> TRUE],
       [id |-> "docformatter",   files |-> "python",  formats |-> TRUE],
       [id |-> "nbqa-isort",     files |-> "jupyter", formats |-> TRUE],
       [id |-> "nbqa-black",     files |-> "jupyter", formats |-> TRUE],
       [id |-> "nbqa-pyupgrade", files |-> "jupyter", formats |-> TRUE],
       [id |-> "pylint",         files |-> "python",  formats |-> FALSE] >>

NoRun == [active |-> FALSE, next |-> 0, report |-> << >>, retval |-> 0]

InitCommit ==
    /\ staged = {}
    /\ run = NoRun
    /\ attempts = 0
    /\ commits = << >>

\* git commit: the pre-commit run starts on the staged files
GitCommit ==
    /\ ~run.active
    /\ attempts < MaxAttempts
    /\ \E files \in (SUBSET FileKinds) \ {{}} : staged' = files
    /\ run' = [active |-> TRUE, next |-> 1, report |-> << >>, retval |-> 0]
    /\ attempts' = attempts + 1
    /\ UNCHANGED << commits, bookVars, callVars, pipelineVars >>

\* the run takes the next hook of the file; one failed hook does not stop it
Reported(outcome, ret) ==
    [run EXCEPT !.report = Append(@, [id |-> hooks[run.next].id, outcome |-> outcome]),
                !.next = @ + 1,
                !.retval = ret]

HookReady == run.active /\ run.next <= Len(hooks)
HookApplies == hooks[run.next].files \in staged

\* a run that forgets a failed hook
Failure_Forgotten(retval) == retval

\* the retval of a run after a hook that failed or that modified a file
Failure(retval) == 1

HookSkipped ==
    /\ HookReady
    /\ ~HookApplies
    /\ run' = Reported("Skipped", run.retval)
    /\ UNCHANGED << staged, attempts, commits, bookVars, callVars, pipelineVars >>

HookPasses ==
    /\ HookReady
    /\ HookApplies
    /\ run' = Reported("Passed", run.retval)
    /\ UNCHANGED << staged, attempts, commits, bookVars, callVars, pipelineVars >>

HookFails ==
    /\ HookReady
    /\ HookApplies
    /\ run' = Reported("Failed", Failure(run.retval))
    /\ UNCHANGED << staged, attempts, commits, bookVars, callVars, pipelineVars >>

\* a formatting hook rewrote a file: "files were modified by this hook"
HookModifies ==
    /\ HookReady
    /\ HookApplies
    /\ hooks[run.next].formats
    /\ run' = Reported("Modified", Failure(run.retval))
    /\ UNCHANGED << staged, attempts, commits, bookVars, callVars, pipelineVars >>

RunOver == run.active /\ run.next > Len(hooks)

\* every hook passed: git records the commit
CommitRecorded ==
    /\ RunOver
    /\ run.retval = 0
    /\ commits' = Append(commits, [files |-> staged, report |-> run.report])
    /\ run' = NoRun
    /\ UNCHANGED << staged, attempts, bookVars, callVars, pipelineVars >>

\* a hook failed: git commit stops and records nothing
CommitAborted ==
    /\ RunOver
    /\ run.retval # 0
    /\ run' = NoRun
    /\ UNCHANGED << staged, attempts, commits, bookVars, callVars, pipelineVars >>

NextCommit ==
    \/ GitCommit
    \/ HookSkipped
    \/ HookPasses
    \/ HookFails
    \/ HookModifies
    \/ CommitRecorded
    \/ CommitAborted

(***************************************************************************)
(* The Pipeline workflow on GitHub.                                        *)
(***************************************************************************)
\* number of commits made, and of events GitHub sees
MaxCommits == 2
MaxEvents == 3

\* pipeline.yml, on: the events that start the workflow.  branch is the branch
\* pushed to, or the branch a pull request targets
on(e) ==
    \/ e.type = "push" /\ e.branch = "main"
    \/ e.type = "pull_request" /\ e.branch = "main"

\* the steps with Pytest above Pre-commit
steps_PytestFirst ==
    << "Checkout repository", "Set up Python", "Install dependencies",
       "Pytest", "Pre-commit" >>

\* pipeline.yml, jobs.run.steps
steps ==
    << "Checkout repository", "Set up Python", "Install dependencies",
       "Pre-commit", "Pytest" >>

Event(type, branch) == [type |-> type, branch |-> branch]

NewRun(e, c) == [event |-> e, commit |-> c, done |-> << >>, status |-> "in_progress"]

InitPipeline ==
    /\ created = 0
    /\ main = << 0 >>
    /\ pull = None
    /\ events = 0
    /\ ignored = {}
    /\ runs = << [event |-> Event("push", "main"), commit |-> 0,
                  done |-> [i \in 1..Len(steps) |->
                               [step |-> steps[i], outcome |-> "success"]],
                  status |-> "success"] >>

\* GitHub sees an event on a commit
Dispatch(e, c) ==
    /\ events < MaxEvents
    /\ events' = events + 1
    /\ IF on(e)
       THEN runs' = Append(runs, NewRun(e, c)) /\ UNCHANGED ignored
       ELSE ignored' = ignored \cup {e} /\ UNCHANGED runs

\* a commit is made and pushed to main
PushMain ==
    /\ created < MaxCommits
    /\ created' = created + 1
    /\ main' = Append(main, created + 1)
    /\ Dispatch(Event("push", "main"), created + 1)
    /\ UNCHANGED << pull, bookVars, callVars, commitVars >>

\* a commit is made on a feature branch and pushed there
PushFeature ==
    /\ created < MaxCommits
    /\ created' = created + 1
    /\ Dispatch(Event("push", "feature"), created + 1)
    /\ UNCHANGED << main, pull, bookVars, callVars, commitVars >>

\* a commit is made on a feature branch and a pull request to main is opened
OpenPullRequest ==
    /\ created < MaxCommits
    /\ pull = None
    /\ created' = created + 1
    /\ pull' = Some(created + 1)
    /\ Dispatch(Event("pull_request", "main"), created + 1)
    /\ UNCHANGED << main, bookVars, callVars, commitVars >>

\* the pull request is merged: its commit is pushed to main
MergePullRequest ==
    /\ IsSome(pull)
    /\ main' = Append(main, Get(pull))
    /\ pull' = None
    /\ Dispatch(Event("push", "main"), Get(pull))
    /\ UNCHANGED << created, bookVars, callVars, commitVars >>

\* an event the workflow does not name
OtherEvent ==
    /\ \E e \in { Event("workflow_dispatch", "main"), Event("schedule", "main"),
                  Event("pull_request", "feature") } :
          Dispatch(e, main[Len(main)])
    /\ UNCHANGED << created, main, pull, bookVars, callVars, commitVars >>

\* the next step of a run: a step starts when the steps before it succeeded
NextStep(r) == steps[Len(r.done) + 1]

StepSucceeds ==
    /\ \E i \in 1..Len(runs) :
          /\ runs[i].status = "in_progress"
          /\ LET done == Append(runs[i].done,
                                [step |-> NextStep(runs[i]), outcome |-> "success"])
             IN  runs' = [runs EXCEPT ![i].done = done,
                                      ![i].status = IF Len(done) = Len(steps)
                                                    THEN "success"
                                                    ELSE "in_progress"]
    /\ UNCHANGED << created, main, pull, events, ignored >>
    /\ UNCHANGED << bookVars, callVars, commitVars >>

\* a step fails: the steps after it do not run and the job fails
StepFails ==
    /\ \E i \in 1..Len(runs) :
          /\ runs[i].status = "in_progress"
          /\ runs' = [runs EXCEPT
                         ![i].done = Append(@, [step |-> NextStep(runs[i]),
                                                outcome |-> "failure"]),
                         ![i].status = "failure"]
    /\ UNCHANGED << created, main, pull, events, ignored >>
    /\ UNCHANGED << bookVars, callVars, commitVars >>

NextPipeline ==
    \/ PushMain
    \/ PushFeature
    \/ OpenPullRequest
    \/ MergePullRequest
    \/ OtherEvent
    \/ StepSucceeds
    \/ StepFails

(***************************************************************************)
(* Specifications.                                                         *)
(***************************************************************************)
Init == InitBook /\ InitCalls /\ InitCommit /\ InitPipeline

\* the initial state with the snr tradebook open and not touched
InitSnr == Init /\ book = "snr"

\* a tradebook in its kernel
SpecBook == Init /\ [][NextBook]_vars
\* calls of the models on one system
SpecCalls == InitSnr /\ [][NextCalls]_vars
\* the noise sum of get_signal_to_noise
SpecNoise == InitSnr /\ [][NextNoise]_vars
\* the efficiency of the grism
SpecEfficiency == InitSnr /\ [][NextEfficiency]_vars
\* commits through the pre-commit hooks
SpecCommit == InitSnr /\ [][NextCommit]_vars
\* branch main and the workflow
SpecPipeline == InitSnr /\ [][NextPipeline]_vars

HookIds ==
    {"isort", "black", "autoflake", "pyupgrade", "docformatter", "nbqa-isort",
     "nbqa-black", "nbqa-pyupgrade", "pylint"}
Formatters == HookIds \ {"pylint"}

\* C5: a commit is recorded only when every configured hook passed on it (a hook
\* with no file to check passes): no hook of the run of a recorded commit
\* failed or modified a file, and a run in which one did records no commit.
C5_CommitOnlyWhenHooksPass ==
    /\ \A c \in Range(commits) :
          /\ { c.report[i].id : i \in 1..Len(c.report) } = HookIds
          /\ \A i \in 1..Len(c.report) : c.report[i].outcome \in {"Passed", "Skipped"}
    /\ (\E i \in 1..Len(run.report) : run.report[i].outcome \in {"Failed", "Modified"})
          => run.retval # 0

\* C5 happens: a commit of python files was recorded after every hook ran
C5_Witness ==
    /\ commits # << >>
    /\ "python" \in commits[1].files
    /\ \E i \in 1..Len(commits[1].report) : commits[1].report[i].outcome = "Passed"

\* the documented place of a hook in the order of a run
Documented(id) ==
    CASE id = "isort"        -> 1
      [] id = "black"        -> 2
      [] id = "docformatter" -> 3
      [] id = "pylint"       -> 4
      [] OTHER               -> 0

\* C8: in a run the hooks isort, black, docformatter and pylint are taken in
\* that order; when pylint is taken every formatting hook has been, and no hook
\* is taken after pylint.
C8_HookOrder ==
    LET r == run.report
    IN  /\ \A i, j \in 1..Len(r) :
              (i < j /\ Documented(r[i].id) > 0 /\ Documented(r[j].id) > 0)
                  => Documented(r[i].id) < Documented(r[j].id)
        /\ \A k \in 1..Len(r) :
              (r[k].id = "pylint") =>
                  /\ k = Len(r)
                  /\ Formatters \subseteq { r[i].id : i \in 1..(k - 1) }
        /\ RunOver => (Len(r) > 0 /\ r[Len(r)].id = "pylint")

\* C8 happens: pylint has linted python files that formatters passed before
C8_Witness ==
    /\ RunOver
    /\ \E k \in 1..Len(run.report) :
          run.report[k].id = "pylint" /\ run.report[k].outcome # "Skipped"
    /\ \E k \in 1..Len(run.report) :
          run.report[k].id = "black" /\ run.report[k].outcome = "Modified"

\* the pipeline of a commit succeeded: every run on it did, and there is one
Green(c) ==
    /\ \E i \in 1..Len(runs) : runs[i].commit = c
    /\ \A i \in 1..Len(runs) : (runs[i].commit = c) => (runs[i].status = "success")

\* C6: every commit on main, its head included, is one for which the Pipeline
\* succeeded: none whose run failed or has not run yet.
C6_MainIsGreen == \A i \in 1..Len(main) : Green(main[i])

\* the order the steps of the job are expected in
StepOrder ==
    << "Checkout repository", "Set up Python", "Install dependencies",
       "Pre-commit", "Pytest" >>

Succeeded(r, step) ==
    \E i \in 1..Len(r.done) : r.done[i].step = step /\ r.done[i].outcome = "success"

\* C9: the steps of a run are taken in the order checkout, Python setup,
\* dependency install, pre-commit, pytest, each after the one before it
\* succeeded; pytest does not run when pre-commit failed; the run succeeds only
\* if pre-commit and pytest did; and runs are started by pushes to main and by
\* pull requests to main, by no other event.
C9_StepsAndTriggers ==
    /\ \A i \in 1..Len(runs) :
          LET r == runs[i]
          IN  /\ Len(r.done) <= Len(StepOrder)
              /\ \A k \in 1..Len(r.done) :
                    /\ r.done[k].step = StepOrder[k]
                    /\ (k < Len(r.done)) => r.done[k].outcome = "success"
              /\ (\E k \in 1..Len(r.done) : r.done[k].step = "Pytest")
                    => Succeeded(r, "Pre-commit")
              /\ (r.status = "success")
                    => (Succeeded(r, "Pre-commit") /\ Succeeded(r, "Pytest"))
              /\ r.event \in { Event("push", "main"), Event("pull_request", "main") }
    /\ \A e \in ignored :
          e \notin { Event("push", "main"), Event("pull_request", "main") }

\* C9 happens: a pull request's run stopped at a failed pre-commit, an event
\* the workflow does not name was seen, and a push's run succeeded
C9_Witness ==
    /\ ignored # {}
    /\ \E i \in 1..Len(runs) :
          /\ runs[i].event.type = "pull_request"
          /\ runs[i].status = "failure"
          /\ runs[i].done[Len(runs[i].done)].step = "Pre-commit"
    /\ \E i \in 2..Len(runs) : runs[i].status = "success"
(***************************************************************************)
(* Properties of the signal-to-noise ratio.                                *)
(***************************************************************************)
\* C11: get_signal_to_noise returns, per wavelength, the signal over the root
\* of the sum of the squared shot, dark, quantization and read noise; the
\* squared shot noise is the number of the signal, the other three are scalars,
\* the same for every wavelength; for the signals of the recorded run the
\* ratio is the recorded one (to 2/1000, the precision of the root).
C11_SignalToNoiseFormula ==
    \A k \in 1..Len(calls) :
        LET signal == calls[k].args[1]
            t      == calls[k].printed
            snr    == calls[k].result
            \* 544662244000000.0 electron2 ms2 / s2, 0.112... and 250000.0 electron2
            other  == (544662244 + 0) + 250000
        IN  /\ t.shot_sqr.v = signal.v
            /\ t.shot_sqr.u = Electron2
            /\ ~t.dark_sqr.arr /\ ~t.quantization_sqr.arr /\ ~t.read_sqr.arr
            /\ Len(snr.v) = Len(signal.v)
            /\ \A i \in 1..Len(signal.v) :
                  /\ snr.v[i] = Ratio(signal.v[i], signal.v[i] + other)
                  /\ \A n \in 1..Len(RecordedSignal) :
                        (signal.v[i] = RecordedSignal[n]) =>
                            /\ snr.v[i] - RecordedSnr[n] <= 2
                            /\ RecordedSnr[n] - snr.v[i] <= 2

\* C11 happens: the ratio of two different recorded signals was evaluated
C11_Witness ==
    /\ Len(calls) = 1
    /\ Len(calls[1].args[1].v) = 2
    /\ calls[1].args[1].v[1] = RecordedSignal[1]
    /\ calls[1].args[1].v[2] = RecordedSignal[32]

\* C12: with the dark, quantization and read noise fixed, of two wavelengths of
\* a sweep the one with the larger signal has the larger signal-to-noise
\* ratio, and a signal of zero has the ratio zero.
C12_SnrIncreasesWithSignal ==
    \A k \in 1..Len(calls) :
        LET signal == calls[k].args[1].v
            snr    == calls[k].result.v
        IN  /\ \A i, j \in 1..Len(signal) :
                  /\ (signal[i] < signal[j]) => (snr[i] < snr[j])
                  /\ (signal[i] = 0) => (snr[i] = 0)
            \* and so it is in the recorded run
            /\ \A m, n \in 1..Len(RecordedSignal) :
                  (RecordedSignal[m] < RecordedSignal[n])
                      => (RecordedSnr[m] < RecordedSnr[n])

\* C12 happens: a sweep with a signal of zero and a positive signal
C12_Witness ==
    /\ Len(calls) = 1
    /\ Len(calls[1].args[1].v) = 2
    /\ calls[1].args[1].v[1] = 0
    /\ calls[1].args[1].v[2] > 0
    /\ calls[1].result.v[2] > 0

\* C13: the squared dark noise is printed in electron2 ms2 / s2 and enters the
\* sum as electron2, its number times 10^-6: what the sum holds beside the
\* shot, quantization and read noise is the printed number divided by 10^6,
\* and not the printed number.
C13_DarkNoiseIsConverted ==
    \A k \in 1..Len(calls) :
        LET signal == calls[k].args[1].v
            t      == calls[k].printed
            sum    == calls[k].noise_sqr
            \* the printed number is dark.v[1] * 10^6
            dark   == t.dark_sqr
        IN  /\ dark.u = UDiv(UMul(Electron2, UMul(U("ms"), U("ms"))),
                              UMul(U("s"), U("s")))
            /\ dark.q = 0 - 6
            /\ sum.u = Electron2
            /\ sum.q = 0
            /\ \A i \in 1..Len(signal) :
                  /\ ((sum.v[i] - signal[i]) - t.read_sqr.v[1]) = dark.v[1]
                  /\ sum.v[i] < 1000000000

\* C13 happens: the sum was formed for the largest recorded signal
C13_Witness ==
    /\ Len(calls) = 1
    /\ calls[1].args[1].v = << RecordedSignal[5] >>
    /\ calls[1].noise_sqr.v[1] > calls[1].printed.dark_sqr.v[1]

(***************************************************************************)
(* Properties of the ground target error.                                  *)
(***************************************************************************)
\* the calls of get_ground_target_error among the calls made
GroundTargetErrorCalls ==
    { k \in 1..Len(calls) : calls[k].method = "get_ground_target_error" }

\* C14: with skew angle 0 get_ground_target_error returns, per pointing
\* accuracy, the orbital altitude times the tangent of the pointing accuracy,
\* in m: it is 0 at 0 and at most linear near it, strictly increasing in the
\* pointing accuracy, proportional to the altitude, and for 500 km it is the
\* recorded table (0.8727 m at 0.0001 deg).  Altitudes h in km, angles a in
\* 1e-4 deg, results r in mm; 1e-4 deg is 1.745329e-6 rad.
C14_GroundTargetError ==
    /\ \A k \in GroundTargetErrorCalls :
          LET h == calls[k].args[1].v[1]
              a == calls[k].args[2].v
              r == calls[k].result.v
          IN  /\ calls[k].result.u = U("m")
              /\ Len(r) = Len(a)
              /\ \A i \in 1..Len(a) :
                    /\ r[i] >= ((h * a[i]) * 1745) \div 1000
                    /\ r[i] <= (((h * a[i]) * 1746) \div 1000) + 1
                    /\ (a[i] = 0) => (r[i] = 0)
                    /\ (h = 500 /\ a[i] = 1) => (r[i] = 872)
                    /\ \A n \in 1..Len(RecordedGroundTargetError) :
                          (h = 500 /\ a[i] = 1 + (10 * (n - 1))) =>
                              /\ r[i] - RecordedGroundTargetError[n] <= 1
                              /\ RecordedGroundTargetError[n] - r[i] <= 1
              /\ \A i, j \in 1..Len(a) : (a[i] < a[j]) => (r[i] < r[j])
    /\ \A k, l \in GroundTargetErrorCalls :
          (calls[k].args[2] = calls[l].args[2]) =>
              LET hk == calls[k].args[1].v[1]
                  hl == calls[l].args[1].v[1]
              IN  \A i \in 1..Len(calls[k].result.v) :
                      /\ (calls[k].result.v[i] * hl) - (calls[l].result.v[i] * hk) <= hk + hl
                      /\ (calls[l].result.v[i] * hk) - (calls[k].result.v[i] * hl) <= hk + hl

\* C14 happens: two altitudes were evaluated on the same pointing accuracies,
\* the angle 0 among them, and the first angle of the tradebook at 500 km
C14_Witness ==
    \E k, l \in GroundTargetErrorCalls :
        /\ calls[k].args[1].v[1] = 500
        /\ calls[l].args[1].v[1] = 550
        /\ calls[k].args[2] = calls[l].args[2]
        /\ calls[k].args[2].v = << 0, 1, 11 >>
        /\ calls[k].result.v[2] = 872

====
